---- MODULE Spec2Model ----
(***************************************************************************)
(* Res-Q front end: the call interface (CallInterfaceClean.tsx), the TALK  *)
(* button (HeroSection.tsx) and the App shell that mounts and unmounts     *)
(* the call interface.  The backend the client talks to is represented by  *)
(* the little of its state the client can observe (latest reply,           *)
(* listening flag), one copy per port the client addresses.                *)
(*                                                                         *)
(* Strings are sequences of tokens: "" is <<>>, a one-word value is a      *)
(* one-token sequence, and joining inserts the separator token Sep.        *)
(***************************************************************************)
EXTENDS Integers, Sequences, FiniteSets, TLC

(* ------------------------------ bounds --------------------------------- *)
\* mounts of the call interface explored
MaxCalls == 2
\* startRecording invocations explored (each may create one MediaRecorder)
MaxSessions == 2
\* timed (timeslice) non-empty fragments per recorder
MaxTimed == 2
\* poll requests in flight at once
MaxPolls == 1
\* speaking-indicator clear-timers pending at once
MaxTimers == 2
\* End Call clicks per mount
MaxEndClicks == 2
\* consecutive failed polls counted
MaxStreak == 2

(* ------------------------- program constants --------------------------- *)
\* port the TALK button posts start_listening to
PortHero == 5001
\* port the call interface uses for every request
PortCall == 5002
Ports == {PortHero, PortCall}

VARIABLES
  \* App shell
  isCallActive, showConsentModal, call, heroPending, endPending,
  \* call interface, current mount
  response, isAISpeaking, isRecording, mediaRecorderRef, chunksRef,
  intervalActive, timers, stopCount,
  \* recording sessions, one per startRecording invocation
  sess, uploadLog, finalBlob, inflight,
  \* polling channel
  polls,
  \* backend, per port
  lastResponse, listening, staleIds, fresh,
  \* location effect
  cache, ipLocation, locPc, lookup, lookups,
  \* history: the polls delivered to the current mount, the chunk upload
  \* that failed last
  pollHist, lastFailed,
  \* uploads whose handler awaits audio.play(), and the playback that failed
  \* last (history)
  playing, lastPlayFailed

appVars == <<isCallActive, showConsentModal, call, heroPending, endPending>>
uiVars == <<response, isAISpeaking, isRecording, mediaRecorderRef, chunksRef,
            intervalActive, timers, stopCount>>
recVars == <<sess, uploadLog, finalBlob, inflight>>
backVars == <<lastResponse, listening, staleIds, fresh>>
locVars == <<cache, ipLocation, locPc, lookup, lookups>>
playVars == <<playing, lastPlayFailed>>
vars == <<appVars, uiVars, recVars, polls, backVars, locVars, pollHist, lastFailed,
          playVars>>

(* ========================= location resolution ========================= *)
E == <<>>
Sep == ", "
Fetching == <<"Fetching location...">>
Unknown == <<"Unknown location">>
Unavailable == <<"Location unavailable">>

\* JavaScript truthiness of a string, and a || b
Truthy(s) == s # E
Or(a, b) == IF Truthy(a) THEN a ELSE b

\* parts.join(", ")
RECURSIVE Join(_)
Join(parts) ==
  IF parts = <<>> THEN E
  ELSE IF Len(parts) = 1 THEN parts[1]
  ELSE parts[1] \o <<Sep>> \o Join(Tail(parts))

\* [city, region, country].filter(Boolean)
Parts(city, region, country) == SelectSeq(<<city, region, country>>, Truthy)

\* Compose without the filter: empty fields are joined too
JoinUnfiltered(city, region, country) == Join(<<city, region, country>>)
\* [city, region, country].filter(Boolean).join(", ")
Compose(city, region, country) == Join(Parts(city, region, country))

\* the descriptive fields read from a geolocation object
City(geo) == Or(geo.city, geo.city_name)
Region(geo) == Or(geo.regionName, geo.region)
Country(geo) == geo.country

Geos == [city : {E, <<"Boston">>}, city_name : {E, <<"Amherst">>},
         regionName : {E, <<"Massachusetts">>}, region : {E, <<"MA">>},
         country : {E, <<"US">>}]
EmptyGeo == [city |-> E, city_name |-> E, regionName |-> E, region |-> E,
             country |-> E]

\* the geo objects drawn where a second object is enumerated beside a full one
SmallGeos == {g \in Geos : g.city_name = E /\ g.region = E}

\* sessionStorage "initial_ip_info": absent, unparsable text, the JSON text
\* null, or an object with an optional geolocation member and its own fields
CacheVals ==
  {[kind |-> "absent"], [kind |-> "garbage"], [kind |-> "null"]}
  \cup [kind : {"object"}, geolocation : {<<>>} \cup {<<g>> : g \in Geos},
        own : SmallGeos]

\* info.geolocation || info
CacheGeo(c) == IF c.geolocation # <<>> THEN c.geolocation[1] ELSE c.own

\* the cache branch yields a location (lines 38-49): raw present, parse ok,
\* at least one part
CacheHit(c) ==
  /\ c.kind = "object"
  /\ Parts(City(CacheGeo(c)), Region(CacheGeo(c)), Country(CacheGeo(c))) # <<>>

\* outcomes of fetch(get_ip): the request rejects, a non-2xx status, a body
\* that is not JSON, the JSON value null, or a JSON object
LookupVals ==
  {[kind |-> "neterr"], [kind |-> "http"], [kind |-> "badjson"],
   [kind |-> "null"]}
  \cup [kind : {"json"}, geolocation : {<<>>} \cup {<<g>> : g \in Geos},
        location_info : {<<>>} \cup {<<g>> : g \in SmallGeos},
        public_ip : {E, <<"203.0.113.7">>}, ip : {E, <<"198.51.100.9">>}]

LookupFailed(o) == o.kind # "json"
\* data.geolocation || data.location_info || {}
LookupGeo(o) ==
  IF o.geolocation # <<>> THEN o.geolocation[1]
  ELSE IF o.location_info # <<>> THEN o.location_info[1]
  ELSE EmptyGeo
\* data.public_ip || data.ip || ""
PublicIp(o) == Or(o.public_ip, o.ip)

\* Resolved without the "Unknown location" fallback
ResolvedNoFallback(o) ==
  IF LookupFailed(o) THEN Unavailable
  ELSE LET g == LookupGeo(o)
           parts == Parts(City(g), Region(g), Country(g))
       IN IF parts # <<>> THEN Join(parts) ELSE PublicIp(o)
\* the value the async branch sets (lines 54-67)
Resolved(o) ==
  IF LookupFailed(o) THEN Unavailable
  ELSE LET g == LookupGeo(o)
           parts == Parts(City(g), Region(g), Country(g))
       IN IF parts # <<>> THEN Join(parts) ELSE Or(PublicIp(o), Unknown)

\* the synchronous part of the location effect (lines 36-53)
LocationEffect ==
  /\ locPc = "init"
  /\ IF CacheHit(cache)
       THEN /\ ipLocation' = Compose(City(CacheGeo(cache)), Region(CacheGeo(cache)),
                                     Country(CacheGeo(cache)))
            /\ locPc' = "done"
            /\ UNCHANGED lookups
       ELSE /\ locPc' = "lookup"
            /\ lookups' = lookups + 1
            /\ UNCHANGED ipLocation
  /\ UNCHANGED <<cache, lookup>>
  /\ UNCHANGED <<appVars, uiVars, recVars, polls, backVars, pollHist, lastFailed, playVars>>

\* the continuation of the get_ip fetch (lines 55-67)
LookupDone ==
  /\ locPc = "lookup"
  /\ \E o \in LookupVals :
       /\ lookup' = o
       /\ ipLocation' = Resolved(o)
  /\ locPc' = "done"
  /\ UNCHANGED <<cache, lookups>>
  /\ UNCHANGED <<appVars, uiVars, recVars, polls, backVars, pollHist, lastFailed, playVars>>

(* ============================ voice pipeline =========================== *)
NoReply == <<>>
\* a reply member that is not text: the empty array, which is truthy and
\* whose String() is the empty string
EmptyArray == <<0, 0, 0>>
\* String(last), String(data.reply)
Str(v) == IF v = EmptyArray THEN NoReply ELSE v
Sessions == 1..MaxSessions
Calls == 1..MaxCalls
IdleSess == [call |-> 0, pc |-> "idle", timed |-> 0, tail |-> 0]
NoPollHist == [streak |-> 0, last |-> NoReply, dup |-> FALSE]

\* the component instance of mount c is the one on screen
Live(c) == isCallActive /\ c = call
\* the id the next startRecording invocation gets
NextId ==
  IF \E i \in Sessions : sess[i].pc = "idle"
    THEN CHOOSE i \in Sessions :
           sess[i].pc = "idle" /\ \A j \in Sessions : sess[j].pc = "idle" => i <= j
    ELSE MaxSessions + 1
\* non-empty fragments recorder i has emitted (timed ones, then the tail)
Emitted(i) == sess[i].timed + sess[i].tail
\* upload requests issued so far, <<i, k>>: fragment k of session i, 0 the final
Issued ==
  UNION {{<<i, uploadLog[i][j]>> : j \in 1..Len(uploadLog[i])} : i \in Sessions}
Completed == Issued \ inflight
\* history kept with the model: staleIds are the uploads whose replies were
\* produced before the latest start_listening that got a 2xx answer, fresh
\* holds from that answer until an upload completes, and a poll's w tells
\* that it was requested while fresh held; Earlier marks the polls in flight
\* as requested before the session start
Earlier(q) == [j \in 1..Len(q) |-> [q[j] EXCEPT !.w = FALSE]]

(* ------------------------------ App shell ------------------------------ *)
\* HeroSection.handleCallClick up to its await: TALK posts start_listening
HeroCallClick ==
  /\ ~isCallActive
  /\ call + heroPending < MaxCalls
  /\ heroPending' = heroPending + 1
  /\ UNCHANGED <<isCallActive, showConsentModal, call, endPending>>
  /\ UNCHANGED <<uiVars, recVars, polls, backVars, locVars, pollHist, lastFailed, playVars>>

\* the rest of handleCallClick: whatever the fetch did, onCallClick() opens
\* the consent modal (App.handleCallClick)
HeroStartDone(o) ==
  /\ heroPending > 0
  /\ heroPending' = heroPending - 1
  /\ showConsentModal' = TRUE
  /\ IF o = "lost"
       THEN UNCHANGED <<lastResponse, listening>>
       ELSE /\ lastResponse' = [lastResponse EXCEPT ![PortHero] = NoReply]
            /\ listening' = [listening EXCEPT ![PortHero] = TRUE]
  /\ IF o = "ok"
       THEN staleIds' = Completed /\ fresh' = TRUE /\ polls' = Earlier(polls)
       ELSE UNCHANGED <<staleIds, fresh, polls>>
  /\ UNCHANGED <<isCallActive, call, endPending>>
  /\ UNCHANGED <<uiVars, recVars, locVars, pollHist, lastFailed, playVars>>

\* App.handleDecline
HandleDecline ==
  /\ showConsentModal
  /\ showConsentModal' = FALSE
  /\ UNCHANGED <<isCallActive, call, heroPending, endPending>>
  /\ UNCHANGED <<uiVars, recVars, polls, backVars, locVars, pollHist, lastFailed, playVars>>

\* App.handleConsent: shows the call interface; a fresh component instance
\* mounts (its state initialised, its polling interval started)
HandleConsent ==
  /\ showConsentModal
  /\ showConsentModal' = FALSE
  /\ isCallActive' = TRUE
  /\ IF isCallActive
       THEN UNCHANGED <<call, uiVars, polls>>
       ELSE /\ call < MaxCalls
            /\ call' = call + 1
            /\ response' = NoReply
            /\ isAISpeaking' = FALSE
            /\ isRecording' = FALSE
            /\ mediaRecorderRef' = 0
            /\ intervalActive' = TRUE
            /\ timers' = 0
            /\ stopCount' = 0
            /\ UNCHANGED <<chunksRef, polls>>
  /\ UNCHANGED <<heroPending, endPending>>
  /\ UNCHANGED <<recVars, backVars, locVars, pollHist, lastFailed, playVars>>

\* handleEnd up to its await: End Call posts stop_listening
EndCallClick ==
  /\ isCallActive
  /\ stopCount < MaxEndClicks
  /\ stopCount' = stopCount + 1
  /\ endPending' = endPending + 1
  /\ UNCHANGED <<isCallActive, showConsentModal, call, heroPending>>
  /\ UNCHANGED <<response, isAISpeaking, isRecording, mediaRecorderRef, chunksRef,
                 intervalActive, timers>>
  /\ UNCHANGED <<recVars, polls, backVars, locVars, pollHist, lastFailed, playVars>>

\* the unmount leaves the interval running
NoCleanup(active) == active
\* the polling effect's cleanup, return () => clearInterval(interval)
Cleanup(active) == FALSE

\* the rest of handleEnd: whatever the fetch did, onEndCall() runs
\* App.handleEndCall, which hides the call interface; the unmount cleanup
\* clears the polling interval
EndCallDone(processed) ==
  /\ endPending > 0
  /\ endPending' = endPending - 1
  /\ listening' = IF processed THEN [listening EXCEPT ![PortCall] = FALSE]
                  ELSE listening
  /\ isCallActive' = FALSE
  /\ IF isCallActive
       THEN /\ intervalActive' = Cleanup(intervalActive)
            /\ response' = NoReply
            /\ isAISpeaking' = FALSE
            /\ isRecording' = FALSE
            /\ mediaRecorderRef' = 0
            /\ timers' = 0
            /\ pollHist' = NoPollHist
       ELSE UNCHANGED <<intervalActive, response, isAISpeaking, isRecording,
                        mediaRecorderRef, timers, pollHist>>
  /\ UNCHANGED <<showConsentModal, call, heroPending, chunksRef, stopCount>>
  /\ UNCHANGED <<recVars, polls, lastResponse, staleIds, fresh, locVars,
                 lastFailed, playVars>>

(* ------------------------------ recording ------------------------------ *)
\* Record button while isRecording is false: startRecording up to its first
\* await, the start_listening request
StartRecordingClick ==
  /\ isCallActive
  /\ ~isRecording
  /\ NextId <= MaxSessions
  /\ sess' = [sess EXCEPT ![NextId] =
                [call |-> call, pc |-> "awaitStart", timed |-> 0, tail |-> 0]]
  /\ UNCHANGED <<appVars, uiVars, uploadLog, finalBlob, inflight, polls, backVars,
                 locVars, pollHist, lastFailed, playVars>>

\* a start_listening request that fails ends startRecording
AfterStartFatal(o) == IF o = "ok" THEN "awaitMedia" ELSE "failed"
\* where startRecording goes on after the start_listening fetch: a rejection
\* is caught and logged as non-fatal (lines 83-88), the response is not read
AfterStart(o) == "awaitMedia"

\* startRecording after the start_listening fetch settled (its failure is
\* caught and ignored): getUserMedia is requested
StartListeningDone(i, o) ==
  /\ sess[i].pc = "awaitStart"
  /\ sess' = [sess EXCEPT ![i].pc = AfterStart(o)]
  /\ IF o = "lost"
       THEN UNCHANGED <<lastResponse, listening>>
       ELSE /\ lastResponse' = [lastResponse EXCEPT ![PortCall] = NoReply]
            /\ listening' = [listening EXCEPT ![PortCall] = TRUE]
  /\ IF o = "ok"
       THEN staleIds' = Completed /\ fresh' = TRUE /\ polls' = Earlier(polls)
       ELSE UNCHANGED <<staleIds, fresh, polls>>
  /\ UNCHANGED <<appVars, uiVars, uploadLog, finalBlob, inflight, locVars,
                 pollHist, lastFailed, playVars>>

\* isRecording is set whether or not the microphone was granted
GetUserMediaDoneOptimistic(i, granted) ==
  /\ sess[i].pc = "awaitMedia"
  /\ sess' = [sess EXCEPT ![i].pc = IF granted THEN "recording" ELSE "failed"]
  /\ IF Live(sess[i].call)
       THEN /\ isRecording' = TRUE
            /\ mediaRecorderRef' = IF granted THEN i ELSE mediaRecorderRef
       ELSE UNCHANGED <<mediaRecorderRef, isRecording>>
  /\ UNCHANGED <<appVars, response, isAISpeaking, chunksRef, intervalActive, timers,
                 stopCount, uploadLog, finalBlob, inflight, polls, backVars,
                 locVars, pollHist, lastFailed, playVars>>
\* startRecording after getUserMedia settled: on a stream the recorder is
\* created and started with the timeslice, stored in mediaRecorderRef and
\* isRecording set; on a rejection the outer catch logs
GetUserMediaDone(i, granted) ==
  /\ sess[i].pc = "awaitMedia"
  /\ IF granted
       THEN /\ sess' = [sess EXCEPT ![i].pc = "recording"]
            /\ IF Live(sess[i].call)
                 THEN mediaRecorderRef' = i /\ isRecording' = TRUE
                 ELSE UNCHANGED <<mediaRecorderRef, isRecording>>
       ELSE /\ sess' = [sess EXCEPT ![i].pc = "failed"]
            /\ UNCHANGED <<mediaRecorderRef, isRecording>>
  /\ UNCHANGED <<appVars, response, isAISpeaking, chunksRef, intervalActive, timers,
                 stopCount, uploadLog, finalBlob, inflight, polls, backVars,
                 locVars, pollHist, lastFailed, playVars>>

\* stopRecording also aborts the recorder's uploads in flight
StopRecordingCancels ==
  /\ isCallActive
  /\ isRecording
  /\ isRecording' = FALSE
  /\ IF mediaRecorderRef # 0 /\ sess[mediaRecorderRef].pc = "recording"
       THEN /\ sess' = [sess EXCEPT ![mediaRecorderRef].pc = "stopping"]
            /\ inflight' = {id \in inflight : id[1] # mediaRecorderRef}
       ELSE UNCHANGED <<sess, inflight>>
  /\ UNCHANGED <<appVars, response, isAISpeaking, mediaRecorderRef, chunksRef,
                 intervalActive, timers, stopCount, uploadLog, finalBlob,
                 polls, backVars, locVars, pollHist, lastFailed, playVars>>
\* Record button while isRecording is true: stopRecording
StopRecordingClick ==
  /\ isCallActive
  /\ isRecording
  /\ isRecording' = FALSE
  /\ IF mediaRecorderRef # 0 /\ sess[mediaRecorderRef].pc = "recording"
       THEN sess' = [sess EXCEPT ![mediaRecorderRef].pc = "stopping"]
       ELSE UNCHANGED sess
  /\ UNCHANGED <<appVars, response, isAISpeaking, mediaRecorderRef, chunksRef,
                 intervalActive, timers, stopCount, uploadLog, finalBlob, inflight,
                 polls, backVars, locVars, pollHist, lastFailed, playVars>>

\* mr.ondataavailable up to its await: an empty blob is ignored, any other is
\* pushed to chunksRef and posted as chunk.webm.  The result is the buffer,
\* the session's request log and the requests in flight.
OnData(i, k, nonEmpty, buf, log, fl) ==
  IF nonEmpty
    THEN [buf |-> Append(buf, <<i, k>>), log |-> Append(log, k),
          fl |-> fl \cup {<<i, k>>}]
    ELSE [buf |-> buf, log |-> log, fl |-> fl]

\* mr.onstop up to its await: nothing is posted for an empty buffer,
\* otherwise the whole buffer is posted as recording_final.webm
FinalAlways(buf) == TRUE
FinalNeeded(buf) == buf # <<>>

\* a timeslice elapsed on a recording MediaRecorder: dataavailable fires
DataAvailable(i, nonEmpty) ==
  /\ sess[i].pc = "recording"
  /\ nonEmpty => sess[i].timed < MaxTimed
  /\ LET c == sess[i].call
         r == OnData(i, sess[i].timed + 1, nonEmpty, chunksRef[c],
                     uploadLog[i], inflight)
     IN /\ chunksRef' = [chunksRef EXCEPT ![c] = r.buf]
        /\ uploadLog' = [uploadLog EXCEPT ![i] = r.log]
        /\ inflight' = r.fl
  /\ sess' = [sess EXCEPT ![i].timed = IF nonEmpty THEN @ + 1 ELSE @]
  /\ UNCHANGED <<appVars, response, isAISpeaking, isRecording, mediaRecorderRef,
                 intervalActive, timers, stopCount, finalBlob, polls, backVars,
                 locVars, pollHist, lastFailed, playVars>>

\* the task mr.stop() queued: dataavailable fires with the data gathered since
\* the last slice (possibly none), then stop fires; both handlers run to
\* their first await
StopTask(i, nonEmpty) ==
  /\ sess[i].pc = "stopping"
  /\ LET c == sess[i].call
         r == OnData(i, sess[i].timed + 1, nonEmpty, chunksRef[c],
                     uploadLog[i], inflight)
     IN /\ sess' = [sess EXCEPT ![i].pc = "inactive",
                                ![i].tail = IF nonEmpty THEN 1 ELSE 0]
        /\ chunksRef' = [chunksRef EXCEPT ![c] = r.buf]
        /\ IF FinalNeeded(r.buf)
             THEN /\ finalBlob' = [finalBlob EXCEPT ![i] = r.buf]
                  /\ uploadLog' = [uploadLog EXCEPT ![i] = Append(r.log, 0)]
                  /\ inflight' = r.fl \cup {<<i, 0>>}
             ELSE /\ uploadLog' = [uploadLog EXCEPT ![i] = r.log]
                  /\ inflight' = r.fl
                  /\ UNCHANGED finalBlob
  /\ UNCHANGED <<appVars, response, isAISpeaking, isRecording, mediaRecorderRef,
                 intervalActive, timers, stopCount, polls, backVars, locVars,
                 pollHist, lastFailed, playVars>>

(* ------------------------------- uploads ------------------------------- *)
\* how an upload_audio request ends for the client: the fetch rejects, a
\* non-2xx status, a body that is not JSON, or a JSON payload
UploadOutcomes == {"neterr", "http", "badjson", "ok"}

\* a failed chunk upload is posted again
ChunkRetried(i, k, log, fl) == [log |-> Append(log, k), fl |-> fl]
\* ondataavailable after a failed upload (lines 106-109, 120-122): a warning
\* or an error is logged, nothing is posted again
ChunkFailed(i, k, log, fl) == [log |-> log, fl |-> fl \ {<<i, k>>}]

\* if (data.reply) setResponse(String(data.reply)), lines 111 and 135
ReplyApplied(reply, cur) == IF Truthy(reply) THEN Str(reply) ELSE cur

\* the continuation of a chunk.webm upload (lines 105-122).  The backend may
\* have produced a reply from the chunk, which becomes its latest reply; a
\* 2xx payload may carry an audio_url, which the handler plays.
ChunkUploadDone(i, k, o, produce, url) ==
  /\ k # 0
  /\ <<i, k>> \in inflight
  /\ o = "ok" \/ ~produce \/ o = "neterr"
  /\ url => o = "ok"
  /\ lastResponse' = IF produce
                       THEN [lastResponse EXCEPT ![PortCall] = <<i, k>>]
                       ELSE lastResponse
  /\ IF o = "ok"
       THEN /\ inflight' = inflight \ {<<i, k>>}
            /\ response' = IF Live(sess[i].call)
                             THEN ReplyApplied(IF produce THEN <<i, k>> ELSE NoReply,
                                               response)
                             ELSE response
            /\ playing' = IF url THEN playing \cup {<<i, k>>} ELSE playing
            /\ UNCHANGED <<uploadLog, lastFailed>>
       ELSE /\ LET r == ChunkFailed(i, k, uploadLog[i], inflight)
               IN /\ uploadLog' = [uploadLog EXCEPT ![i] = r.log]
                  /\ inflight' = r.fl
            /\ lastFailed' = <<i, k, Emitted(i)>>
            /\ UNCHANGED <<response, playing>>
  /\ fresh' = FALSE
  /\ UNCHANGED <<appVars, isAISpeaking, isRecording, mediaRecorderRef, chunksRef,
                 intervalActive, timers, stopCount, sess, finalBlob, polls,
                 listening, staleIds, locVars, pollHist, lastPlayFailed>>

\* the continuation of the recording_final.webm upload (lines 132-149); the
\* finally clause empties chunksRef whatever happened, after the playback
\* promise settled when the payload carries an audio_url
FinalUploadDone(i, o, produce, url) ==
  /\ <<i, 0>> \in inflight
  /\ inflight' = inflight \ {<<i, 0>>}
  /\ o = "ok" \/ ~produce \/ o = "neterr"
  /\ url => o = "ok"
  /\ lastResponse' = IF produce
                       THEN [lastResponse EXCEPT ![PortCall] = <<i, 0>>]
                       ELSE lastResponse
  /\ response' = IF o = "ok" /\ Live(sess[i].call)
                   THEN ReplyApplied(IF produce THEN <<i, 0>> ELSE NoReply, response)
                   ELSE response
  /\ IF url
       THEN playing' = playing \cup {<<i, 0>>} /\ UNCHANGED chunksRef
       ELSE chunksRef' = [chunksRef EXCEPT ![sess[i].call] = <<>>]
            /\ UNCHANGED playing
  /\ fresh' = FALSE
  /\ UNCHANGED <<appVars, isAISpeaking, isRecording, mediaRecorderRef,
                 intervalActive, timers, stopCount, sess, uploadLog, finalBlob,
                 polls, listening, staleIds, locVars, pollHist, lastFailed,
                 lastPlayFailed>>

(* ------------------------------- playback ------------------------------ *)
\* a playback failure reaches the handler's outer catch and is logged as an
\* upload error
PlayFailedAsUpload(i, k, failed) == <<i, k, Emitted(i)>>
\* new Audio(url) or audio.play() throws: the inner catch logs "Failed to
\* play audio" (lines 116-118, 140-142); the upload is not recorded as failed
PlayFailed(i, k, failed) == failed

\* audio.play() settled for the reply of upload <<i, k>>: the chunk handler
\* ends; the final handler runs its finally
PlayDone(i, k, ok) ==
  /\ <<i, k>> \in playing
  /\ playing' = playing \ {<<i, k>>}
  /\ lastPlayFailed' = IF ok THEN lastPlayFailed ELSE <<i, k, Emitted(i)>>
  /\ lastFailed' = IF ok THEN lastFailed ELSE PlayFailed(i, k, lastFailed)
  /\ chunksRef' = IF k = 0 THEN [chunksRef EXCEPT ![sess[i].call] = <<>>]
                  ELSE chunksRef
  /\ UNCHANGED <<appVars, response, isAISpeaking, isRecording, mediaRecorderRef,
                 intervalActive, timers, stopCount, recVars, polls, backVars,
                 locVars, pollHist>>

(* ------------------------------- polling ------------------------------- *)
\* polls[j] without its j-th element
Without(q, j) == SubSeq(q, 1, j - 1) \o SubSeq(q, j + 1, Len(q))

\* the interval callback up to its await (lines 18-20): get_latest_response
\* is requested
PollTick ==
  /\ intervalActive
  /\ Len(polls) < MaxPolls
  /\ polls' = Append(polls, [call |-> call, k |-> "sent", v |-> NoReply,
                             w |-> fresh])
  /\ UNCHANGED <<appVars, uiVars, recVars, backVars, locVars, pollHist, lastFailed, playVars>>

\* the backend answers a poll with its latest reply, or with an error status
\* or a body that does not parse
PollServe(j, good) ==
  /\ polls[j].k = "sent"
  /\ polls' = [polls EXCEPT ![j] =
                 IF good THEN [@ EXCEPT !.k = "ok", !.v = lastResponse[PortCall]]
                 ELSE [@ EXCEPT !.k = "bad"]]
  /\ UNCHANGED <<appVars, uiVars, recVars, backVars, locVars, pollHist, lastFailed, playVars>>

\* a poll is answered 2xx with a payload whose last_response is an empty array
PollServeOdd(j) ==
  /\ polls[j].k = "sent"
  /\ polls' = [polls EXCEPT ![j] = [@ EXCEPT !.k = "ok", !.v = EmptyArray]]
  /\ UNCHANGED <<appVars, uiVars, recVars, backVars, locVars, pollHist, lastFailed,
                 playVars>>

\* a failed poll also cancels the interval
PollFailStops(j) ==
  /\ polls[j].k \in {"sent", "bad"}
  /\ polls' = Without(polls, j)
  /\ intervalActive' = FALSE
  /\ pollHist' = IF Live(polls[j].call)
                   THEN [streak |-> IF pollHist.streak < MaxStreak
                                      THEN pollHist.streak + 1 ELSE pollHist.streak,
                         last |-> NoReply, dup |-> FALSE]
                   ELSE pollHist
  /\ UNCHANGED <<appVars, response, isAISpeaking, isRecording, mediaRecorderRef,
                 chunksRef, timers, stopCount, recVars, backVars, locVars,
                 lastFailed, playVars>>
\* the interval callback when the poll fails: the fetch rejects or the body
\* does not parse (caught and logged, lines 29-31) or the status is not ok
\* (return, line 21)
PollFail(j) ==
  /\ polls[j].k \in {"sent", "bad"}
  /\ polls' = Without(polls, j)
  /\ pollHist' = IF Live(polls[j].call)
                   THEN [streak |-> IF pollHist.streak < MaxStreak
                                      THEN pollHist.streak + 1 ELSE pollHist.streak,
                         last |-> NoReply, dup |-> FALSE]
                   ELSE pollHist
  /\ UNCHANGED <<appVars, uiVars, recVars, backVars, locVars, lastFailed, playVars>>

\* the text is applied only when it differs from the visible one
PollUpdatesDedup(v) == Truthy(v) /\ v # response
\* if (last), line 24
PollUpdates(v) == Truthy(v)

\* the interval callback when the poll succeeds (lines 22-28): non-empty
\* text is shown, the speaking indicator set and a timer scheduled to clear it
PollOk(j) ==
  /\ polls[j].k = "ok"
  /\ polls' = Without(polls, j)
  /\ LET v == polls[j].v
     IN IF Live(polls[j].call)
          THEN IF PollUpdates(v)
                 THEN /\ timers < MaxTimers
                      /\ response' = Str(v)
                      /\ isAISpeaking' = TRUE
                      /\ timers' = timers + 1
                      /\ pollHist' = [streak |-> 0, last |-> v,
                                      dup |-> (v = pollHist.last)]
                 ELSE /\ pollHist' = [streak |-> 0,
                                      last |-> IF Truthy(v) THEN v ELSE NoReply,
                                      dup |-> FALSE]
                      /\ UNCHANGED <<response, isAISpeaking, timers>>
          ELSE UNCHANGED <<response, isAISpeaking, timers, pollHist>>
  /\ UNCHANGED <<appVars, isRecording, mediaRecorderRef, chunksRef, intervalActive,
                 stopCount, recVars, backVars, locVars, lastFailed, playVars>>

\* a clear-timer fires without clearing the indicator
TimerFireKeeps ==
  /\ timers > 0
  /\ timers' = timers - 1
  /\ UNCHANGED <<appVars, response, isAISpeaking, isRecording, mediaRecorderRef,
                 chunksRef, intervalActive, stopCount, recVars, polls, backVars,
                 locVars, pollHist, lastFailed, playVars>>
\* a clear-timer scheduled by a poll fires (line 27)
TimerFire ==
  /\ timers > 0
  /\ timers' = timers - 1
  /\ isAISpeaking' = FALSE
  /\ UNCHANGED <<appVars, response, isRecording, mediaRecorderRef, chunksRef,
                 intervalActive, stopCount, recVars, polls, backVars, locVars,
                 pollHist, lastFailed, playVars>>

(* ---------------------------- specifications --------------------------- *)
InitPipeline ==
  /\ isCallActive = FALSE /\ showConsentModal = FALSE /\ call = 0
  /\ heroPending = 0 /\ endPending = 0
  /\ response = NoReply /\ isAISpeaking = FALSE /\ isRecording = FALSE
  /\ mediaRecorderRef = 0 /\ chunksRef = [c \in Calls |-> <<>>]
  /\ intervalActive = FALSE /\ timers = 0 /\ stopCount = 0
  /\ sess = [i \in Sessions |-> IdleSess]
  /\ uploadLog = [i \in Sessions |-> <<>>]
  /\ finalBlob = [i \in Sessions |-> <<>>]
  /\ inflight = {}
  /\ polls = <<>>
  /\ lastResponse = [p \in Ports |-> NoReply]
  /\ listening = [p \in Ports |-> FALSE]
  /\ staleIds = {} /\ fresh = FALSE
  /\ pollHist = NoPollHist /\ lastFailed = <<>>
  /\ playing = {} /\ lastPlayFailed = <<>>

InitLoc ==
  /\ ipLocation = Fetching /\ locPc = "init"
  /\ lookup = [kind |-> "none"] /\ lookups = 0

\* the state right after the first mount: TALK, its start_listening lost on
\* the way (nothing listens on PortHero), consent given
InitMounted ==
  /\ isCallActive = TRUE /\ showConsentModal = FALSE /\ call = 1
  /\ heroPending = 0 /\ endPending = 0
  /\ response = NoReply /\ isAISpeaking = FALSE /\ isRecording = FALSE
  /\ mediaRecorderRef = 0 /\ chunksRef = [c \in Calls |-> <<>>]
  /\ intervalActive = TRUE /\ timers = 0 /\ stopCount = 0
  /\ sess = [i \in Sessions |-> IdleSess]
  /\ uploadLog = [i \in Sessions |-> <<>>]
  /\ finalBlob = [i \in Sessions |-> <<>>]
  /\ inflight = {}
  /\ polls = <<>>
  /\ lastResponse = [p \in Ports |-> NoReply]
  /\ listening = [p \in Ports |-> FALSE]
  /\ staleIds = {} /\ fresh = FALSE
  /\ pollHist = NoPollHist /\ lastFailed = <<>>
  /\ playing = {} /\ lastPlayFailed = <<>>

StartOutcomes == {"ok", "lost", "resplost"}

AppShell(St) ==
  \/ HeroCallClick
  \/ \E o \in St : HeroStartDone(o)
  \/ HandleDecline
  \/ HandleConsent
EndCall ==
  \/ EndCallClick
  \/ \E processed \in BOOLEAN : EndCallDone(processed)
\* recording under an environment: the sessions S the user starts, the
\* outcomes St of start_listening, G of getUserMedia, the timed blobs D and
\* tail blobs T (non-empty or not), the upload outcomes O, and whether the
\* backend produces a reply from an upload (P) and names an audio_url (A)
Recording(S, St, G, D, T, O, P, A) ==
  \/ NextId \in S /\ StartRecordingClick
  \/ \E i \in Sessions, o \in St : StartListeningDone(i, o)
  \/ \E i \in Sessions, granted \in G : GetUserMediaDone(i, granted)
  \/ StopRecordingClick
  \/ \E i \in Sessions, nonEmpty \in D : DataAvailable(i, nonEmpty)
  \/ \E i \in Sessions, nonEmpty \in T : StopTask(i, nonEmpty)
  \/ \E i \in Sessions, k \in 1..(MaxTimed + 1), o \in O, produce \in P, url \in A :
        ChunkUploadDone(i, k, o, produce, url)
  \/ \E i \in Sessions, o \in O, produce \in P, url \in A :
        FinalUploadDone(i, o, produce, url)
\* the playback promises settle, either way
Playback ==
  \E i \in Sessions, k \in 0..(MaxTimed + 1), ok \in BOOLEAN : PlayDone(i, k, ok)
Polling ==
  \/ PollTick
  \/ \E j \in 1..Len(polls), good \in BOOLEAN : PollServe(j, good)
  \/ \E j \in 1..Len(polls) : PollFail(j)
  \/ \E j \in 1..Len(polls) : PollOk(j)
  \/ TimerFire

Init == InitPipeline /\ InitLoc /\ cache = [kind |-> "absent"]

\* the whole front end
Next ==
  \/ AppShell(StartOutcomes)
  \/ EndCall
  \/ Recording(Sessions, StartOutcomes, BOOLEAN, BOOLEAN, BOOLEAN, UploadOutcomes,
               BOOLEAN, BOOLEAN)
  \/ Playback
  \/ Polling
  \/ \E j \in 1..Len(polls) : PollServeOdd(j)
Spec == Init /\ [][Next]_vars

\* one call, recording only: every session, every blob and every upload
\* outcome; the client reads nothing of the start_listening response, and the
\* backend replies to no upload
InitRecording == InitMounted /\ InitLoc /\ cache = [kind |-> "absent"]
NextRecording ==
  Recording(Sessions, {"lost", "resplost"}, BOOLEAN, BOOLEAN, BOOLEAN,
            UploadOutcomes, {FALSE}, {FALSE})
SpecRecording == InitRecording /\ [][NextRecording]_vars

\* one call, recording and End Call
NextEndCall ==
  \/ Recording(Sessions, {"resplost"}, {TRUE}, {TRUE}, {TRUE}, {"ok", "neterr"},
               {FALSE}, {FALSE})
  \/ EndCall
SpecEndCall == InitRecording /\ [][NextEndCall]_vars

\* one call, one recording session whose uploads the backend may reply to,
\* and the polling channel
NextPolling ==
  \/ Recording({1}, {"ok"}, {TRUE}, {TRUE}, {FALSE}, {"ok"}, BOOLEAN, {FALSE})
  \/ Polling
SpecPolling == InitRecording /\ [][NextPolling]_vars
\* the same, with the event loop running every timer that is due
SpecPollingFair == SpecPolling /\ WF_vars(TimerFire)

\* one call with its polling channel, ended by End Call; one recording
\* session whose tail and final upload the backend replies to
NextUnmount ==
  \/ Recording({1}, {"ok"}, {TRUE}, {FALSE}, {TRUE}, {"ok"}, {TRUE}, {FALSE})
  \/ Polling
  \/ EndCall
SpecUnmount == InitRecording /\ [][NextUnmount]_vars
\* the same, where every poll request settles (the fetch resolves or rejects)
\* and its continuation runs
PollSettles == \E j \in 1..Len(polls) : PollFail(j) \/ PollOk(j)
SpecUnmountFair == SpecUnmount /\ WF_vars(PollSettles)

\* one call, one recording session: every tail, uploads answered or lost, the
\* backend replying or not
NextUploads ==
  Recording({1}, {"resplost"}, {TRUE}, {TRUE}, BOOLEAN, {"ok", "neterr"}, BOOLEAN,
            {FALSE})
SpecUploads == InitRecording /\ [][NextUploads]_vars

\* from the landing page into one call, every start_listening request failing
\* (lost on the way, or processed with its response lost), the microphone
\* granted, one recording session
NextStartFails ==
  \/ heroPending = 0 /\ ~showConsentModal /\ HeroCallClick
  \/ \E o \in {"lost", "resplost"} : HeroStartDone(o)
  \/ HandleDecline
  \/ HandleConsent
  \/ Recording({1}, {"lost", "resplost"}, {TRUE}, {TRUE}, {FALSE}, {"ok"},
               {FALSE}, {FALSE})
SpecStartFails == Init /\ [][NextStartFails]_vars

\* one call, one recording session and the polling channel, where a poll may
\* also be answered with a payload of an unexpected shape
NextMalformed ==
  \/ NextPolling
  \/ \E j \in 1..Len(polls) : PollServeOdd(j)
SpecMalformed == InitRecording /\ [][NextMalformed]_vars

\* successive calls from the landing page: TALK (one click at a time, every
\* request answered), consent, one recording session, polling, End Call
NextCalls ==
  \/ heroPending = 0 /\ ~showConsentModal /\ HeroCallClick
  \/ HeroStartDone("ok")
  \/ HandleDecline
  \/ HandleConsent
  \/ EndCallClick
  \/ EndCallDone(TRUE)
  \/ Recording({1}, {"ok"}, {TRUE}, {FALSE}, {TRUE}, {"ok"}, {TRUE}, {FALSE})
  \/ Polling
SpecCalls == Init /\ [][NextCalls]_vars

\* the location effect alone, over every cached value
InitLocation == InitMounted /\ InitLoc /\ cache \in CacheVals
NextLocation == LocationEffect \/ LookupDone
SpecLocation == InitLocation /\ [][NextLocation]_vars

\* one call, recording sessions started one at a time (Record is clicked only
\* when no earlier click is still waiting for start_listening or the
\* microphone, and after the task queued by an earlier mr.stop() has run),
\* every timed blob non-empty, chunk uploads answered, the final upload
\* answered or lost
SerialClick ==
  /\ \A i \in Sessions : sess[i].pc \notin {"awaitStart", "awaitMedia", "stopping"}
  /\ StartRecordingClick
NextHandover ==
  \/ SerialClick
  \/ \E i \in Sessions : StartListeningDone(i, "resplost")
  \/ \E i \in Sessions : GetUserMediaDone(i, TRUE)
  \/ StopRecordingClick
  \/ \E i \in Sessions : DataAvailable(i, TRUE)
  \/ \E i \in Sessions, nonEmpty \in BOOLEAN : StopTask(i, nonEmpty)
  \/ \E i \in Sessions, k \in 1..(MaxTimed + 1) : ChunkUploadDone(i, k, "ok", FALSE, FALSE)
  \/ \E i \in Sessions, o \in {"ok", "neterr"} : FinalUploadDone(i, o, FALSE, FALSE)
SpecHandover == InitRecording /\ [][NextHandover]_vars

\* one call, recording sessions started one at a time, every upload answered
\* with a reply and an audio_url; playback starts or fails
NextPlayback ==
  \/ SerialClick
  \/ \E i \in Sessions : StartListeningDone(i, "resplost")
  \/ \E i \in Sessions : GetUserMediaDone(i, TRUE)
  \/ StopRecordingClick
  \/ \E i \in Sessions : DataAvailable(i, TRUE)
  \/ \E i \in Sessions, nonEmpty \in BOOLEAN : StopTask(i, nonEmpty)
  \/ \E i \in Sessions, k \in 1..(MaxTimed + 1) : ChunkUploadDone(i, k, "ok", TRUE, TRUE)
  \/ \E i \in Sessions : FinalUploadDone(i, "ok", TRUE, TRUE)
  \/ Playback
SpecPlayback == InitRecording /\ [][NextPlayback]_vars

\* one call with its polling channel; recording sessions started one at a
\* time, the microphone granted or denied, tails only, every request answered,
\* the backend replying to no upload (so no poll brings text)
NextDenied ==
  \/ SerialClick
  \/ \E i \in Sessions : StartListeningDone(i, "ok")
  \/ \E i \in Sessions, granted \in BOOLEAN : GetUserMediaDone(i, granted)
  \/ StopRecordingClick
  \/ \E i \in Sessions : StopTask(i, TRUE)
  \/ \E i \in Sessions, k \in 1..(MaxTimed + 1) : ChunkUploadDone(i, k, "ok", FALSE, FALSE)
  \/ \E i \in Sessions : FinalUploadDone(i, "ok", FALSE, FALSE)
  \/ PollTick
  \/ \E j \in 1..Len(polls), good \in BOOLEAN : PollServe(j, good)
  \/ \E j \in 1..Len(polls) : PollFail(j)
  \/ \E j \in 1..Len(polls) : PollOk(j)
SpecDenied == InitRecording /\ [][NextDenied]_vars

(* ================================ claims =============================== *)
\* the entries of a session's request log that are chunk.webm uploads, and
\* the number of recording_final.webm uploads in it
ChunkUploads(log) == SelectSeq(log, LAMBDA k : k # 0)
FinalUploads(log) == Len(SelectSeq(log, LAMBDA k : k = 0))
UpTo(n) == [k \in 1..n |-> k]

\* C1 as stated: every stopped recording session that emitted N timed
\* fragments issued exactly N + 1 uploads, N chunk.webm ones and then exactly
\* one recording_final.webm.
C1_Original ==
  \A i \in Sessions :
    sess[i].pc = "inactive" =>
      /\ ChunkUploads(uploadLog[i]) = UpTo(sess[i].timed)
      /\ FinalUploads(uploadLog[i]) = 1
      /\ uploadLog[i][Len(uploadLog[i])] = 0

\* C1 amended: a session issues one chunk.webm upload per non-empty blob, the
\* tail flushed by the stop included, in capture order, and after them at
\* most one recording_final.webm, never before the stop and never with an
\* empty body; the final upload is issued whenever the stop flushed a
\* non-empty tail, and is not issued when nothing was ever buffered.
C1_UploadsPerSession ==
  \A i \in Sessions :
    LET log == uploadLog[i] IN
      /\ ChunkUploads(log) = UpTo(Emitted(i))
      /\ FinalUploads(log) <= 1
      /\ FinalUploads(log) = 1 =>
           /\ sess[i].pc = "inactive"
           /\ log[Len(log)] = 0
           /\ finalBlob[i] # <<>>
      /\ (sess[i].pc = "inactive" /\ sess[i].tail = 1) => FinalUploads(log) = 1
      /\ (sess[i].pc = "inactive"
            /\ \A j \in Sessions : sess[j].call = sess[i].call => Emitted(j) = 0)
           => FinalUploads(log) = 0

\* C1 witness: two timed fragments and a tail, four uploads.
C1_Witness ==
  \E i \in Sessions :
    /\ sess[i].pc = "inactive" /\ sess[i].timed = 2 /\ sess[i].tail = 1
    /\ uploadLog[i] = <<1, 2, 3, 0>>

\* C5: a chunk upload that failed is not posted again and does not touch the
\* recorder; every non-empty blob, before or after the failure, is posted as
\* chunk.webm exactly once.
C5_FailedChunkDropped ==
  /\ [](/\ \A i \in Sessions : ChunkUploads(uploadLog[i]) = UpTo(Emitted(i))
        /\ lastFailed # <<>> => <<lastFailed[1], lastFailed[2]>> \notin inflight)
  /\ [][\A i \in Sessions, k \in 1..(MaxTimed + 1),
          o \in UploadOutcomes \ {"ok"}, produce \in BOOLEAN, url \in BOOLEAN :
          ChunkUploadDone(i, k, o, produce, url) =>
            (sess' = sess /\ uploadLog' = uploadLog)]_vars

\* C5 witness: the first fragment's upload failed while it was the only one
\* emitted, the recorder is still recording and the second was posted.
C5_Witness ==
  \E i \in Sessions :
    /\ lastFailed = <<i, 1, 1>>
    /\ sess[i].pc = "recording"
    /\ uploadLog[i] = <<1, 2>>

\* C10 as stated: at most one MediaRecorder is recording, and it is the one
\* mediaRecorderRef holds.
C10_OneRecorder ==
  /\ Cardinality({i \in Sessions : sess[i].pc = "recording"}) <= 1
  /\ \A i \in Sessions : sess[i].pc = "recording" => mediaRecorderRef = i

\* C3 as stated: once End Call has completed (the call interface is gone) no
\* MediaRecorder is recording.
C3_EndStopsRecording ==
  ~isCallActive => \A i \in Sessions : sess[i].pc # "recording"

\* C4 as stated: stop_listening is requested exactly once per call, at most
\* once while the call is up and exactly once when it is over.
C4_StopListeningOnce ==
  /\ isCallActive => stopCount <= 1
  /\ ~isCallActive => stopCount = 1

\* C6: a failed poll leaves the response text, the speaking indicator and its
\* timers alone, and the interval stays armed while the call interface is
\* mounted.
C6_FailedPollHarmless ==
  /\ [](isCallActive => intervalActive)
  /\ [][\A j \in 1..Len(polls) :
          PollFail(j) =>
            /\ response' = response
            /\ isAISpeaking' = isAISpeaking
            /\ timers' = timers
            /\ intervalActive' = intervalActive]_vars

\* C6 witness: two polls in a row failed and another one has been requested.
C6_Witness ==
  /\ pollHist.streak = 2
  /\ Len(polls) > 0 /\ polls[1].k = "sent"
  /\ isCallActive

\* C7: every poll that brings non-empty text to the mounted call interface
\* sets the response to it, sets the speaking indicator and schedules one
\* more clear-timer, also when the text is the one already shown.
C7_PollAlwaysTriggers ==
  [][\A j \in 1..Len(polls) :
       (PollOk(j) /\ Truthy(polls[j].v) /\ Live(polls[j].call)) =>
         /\ response' = polls[j].v
         /\ isAISpeaking' = TRUE
         /\ timers' = timers + 1]_vars

\* C7 witness: the last two polls brought the same text, and two clear-timers
\* are pending.
C7_Witness ==
  /\ pollHist.dup /\ response = pollHist.last
  /\ timers = 2 /\ isAISpeaking

\* C2 as stated: a poll requested and completed after a start_listening that
\* succeeded, and before any upload completed, does not show a reply produced
\* before that start.
C2_NoStaleReply ==
  [][\A j \in 1..Len(polls) :
       (PollOk(j) /\ Live(polls[j].call) /\ polls[j].w /\ fresh) =>
         response' \notin staleIds]_vars

\* the tokens of a string that are not separators
Words(str) == SelectSeq(str, LAMBDA t : t # Sep)
\* no leading, trailing or doubled separator
NoArtifacts(str) ==
  /\ str # E
  /\ str[1] # Sep /\ str[Len(str)] # Sep
  /\ \A n \in 1..(Len(str) - 1) : ~(str[n] = Sep /\ str[n + 1] = Sep)
  /\ Len(str) = 2 * Len(Words(str)) - 1

\* C8: on a cache hit the location is the present fields in the order city,
\* region, country, separated by ", " with no leading, trailing or doubled
\* separator, and no remote lookup is issued.
C8_CacheComposition ==
  CacheHit(cache) =>
    /\ lookups = 0
    /\ lookup.kind = "none"
    /\ locPc = "done" =>
         /\ NoArtifacts(ipLocation)
         /\ Words(ipLocation) =
              City(CacheGeo(cache)) \o Region(CacheGeo(cache))
                \o Country(CacheGeo(cache))

\* C8 witness: city and country only.
C8_Witness ==
  /\ locPc = "done" /\ lookups = 0
  /\ cache.kind = "object" /\ Region(CacheGeo(cache)) = E
  /\ ipLocation = <<"Boston", Sep, "US">>

RawIps == {<<"203.0.113.7">>, <<"198.51.100.9">>}
HasFields(o) ==
  City(LookupGeo(o)) \o Region(LookupGeo(o)) \o Country(LookupGeo(o)) # E

\* C9 as stated: after a remote lookup the location is "Location unavailable"
\* when the lookup failed, the raw IP when it succeeded without descriptive
\* fields, and never anything but a composed string, a raw IP or the sentinel.
C9_Original ==
  (locPc = "done" /\ lookups = 1) =>
    /\ LookupFailed(lookup) => ipLocation = Unavailable
    /\ (~LookupFailed(lookup) /\ ~HasFields(lookup)) => ipLocation \in RawIps
    /\ \/ ipLocation = Unavailable
       \/ ipLocation \in RawIps
       \/ NoArtifacts(ipLocation) /\ ipLocation \notin {Unknown, Fetching}

\* C9 amended: as stated, except that a successful lookup with neither
\* descriptive fields nor an IP address yields "Unknown location", a fourth
\* possible value.
C9_LookupPrecedence ==
  (locPc = "done" /\ lookups = 1) =>
    /\ LookupFailed(lookup) => ipLocation = Unavailable
    /\ (~LookupFailed(lookup) /\ HasFields(lookup)) =>
         /\ NoArtifacts(ipLocation)
         /\ Words(ipLocation) =
              City(LookupGeo(lookup)) \o Region(LookupGeo(lookup))
                \o Country(LookupGeo(lookup))
    /\ (~LookupFailed(lookup) /\ ~HasFields(lookup)) =>
         /\ lookup.public_ip # E => ipLocation = lookup.public_ip
         /\ (lookup.public_ip = E /\ lookup.ip # E) => ipLocation = lookup.ip
         /\ (lookup.public_ip = E /\ lookup.ip = E) => ipLocation = Unknown

\* C9 witness: a lookup that succeeded with an empty payload.
C9_Witness ==
  /\ locPc = "done" /\ lookups = 1
  /\ lookup.kind = "json" /\ ~HasFields(lookup) /\ PublicIp(lookup) = E
  /\ ipLocation = Unknown

\* the fragments recorder i emitted, in capture order
OwnFragments(i) == [k \in 1..Emitted(i) |-> <<i, k>>]

\* C11 as stated: the final upload of a stopped session carries exactly the
\* non-empty fragments that session emitted, in capture order, and a session
\* that emitted any issues one.
C11_FinalContents ==
  \A i \in Sessions :
    sess[i].pc = "inactive" =>
      /\ Emitted(i) > 0 => FinalUploads(uploadLog[i]) = 1
      /\ FinalUploads(uploadLog[i]) = 1 => finalBlob[i] = OwnFragments(i)

\* C12 as stated: the visible response text is last-writer-wins.  Every poll,
\* chunk upload or final upload that completes for the mounted call interface
\* with non-empty reply text makes that text the visible one, whatever is
\* shown and whenever the request was issued, and while the call interface
\* stays mounted the visible text changes only to the non-empty reply text of
\* a response that completes.
C12_LastWriterWins ==
  [][/\ \A j \in 1..Len(polls) :
          (PollOk(j) /\ Str(polls[j].v) # NoReply /\ Live(polls[j].call)) =>
            response' = Str(polls[j].v)
     /\ \A i \in Sessions, k \in 1..(MaxTimed + 1), url \in BOOLEAN :
          (ChunkUploadDone(i, k, "ok", TRUE, url) /\ Live(sess[i].call)) =>
            response' = <<i, k>>
     /\ \A i \in Sessions, url \in BOOLEAN :
          (FinalUploadDone(i, "ok", TRUE, url) /\ Live(sess[i].call)) =>
            response' = <<i, 0>>
     /\ (isCallActive /\ isCallActive' /\ call' = call /\ response' # response) =>
          /\ response' # NoReply
          /\ \/ \E j \in 1..Len(polls) : PollOk(j) /\ response' = Str(polls[j].v)
             \/ \E id \in inflight \ inflight' : response' = id]_vars

\* C13: the speaking indicator is true only while a clear-timer of a poll is
\* pending, only a poll with non-empty text sets it, and whenever it is true
\* it is eventually cleared.
C13_IndicatorCleared ==
  /\ [](isAISpeaking => timers > 0)
  /\ [][(~isAISpeaking /\ isAISpeaking') =>
          \E j \in 1..Len(polls) : PollOk(j) /\ Truthy(polls[j].v)]_vars
  /\ (isAISpeaking ~> ~isAISpeaking)

\* C13 witness: the last poll delivered brought text, and the indicator has
\* been cleared with no timer left.
C13_Witness ==
  /\ isCallActive
  /\ pollHist.last # NoReply /\ response = pollHist.last
  /\ ~isAISpeaking /\ timers = 0

\* C14: once the call interface is unmounted its interval is cancelled and
\* no poll is requested any more; the unmount itself leaves the polls in
\* flight alone, and each of them still settles.
C14_UnmountStopsPolling ==
  /\ [](~isCallActive => ~intervalActive)
  /\ [][Len(polls') > Len(polls) =>
          (isCallActive /\ polls'[Len(polls')].call = call)]_vars
  /\ [][(isCallActive /\ ~isCallActive') => polls' = polls]_vars
  /\ (~isCallActive ~> polls = <<>>)

\* C14 witness: the call interface is gone and a poll it requested is still
\* in flight.
C14_Witness ==
  /\ ~isCallActive /\ ~intervalActive
  /\ Len(polls) = 1 /\ polls[1].call = call

\* C15: chunk uploads are issued in capture order, each one when its blob is
\* delivered and whatever is still in flight; stopping the recording removes
\* no upload from flight, and a reply to a chunk upload that completes after
\* the stop is shown like any other.
C15_UploadsIndependent ==
  /\ [](\A i \in Sessions : ChunkUploads(uploadLog[i]) = UpTo(Emitted(i)))
  /\ [][\A i \in Sessions :
          Emitted(i)' > Emitted(i) =>
            inflight' \ {<<i, 0>>} = inflight \cup {<<i, Emitted(i)'>>}]_vars
  /\ [][(\E i \in Sessions : sess[i].pc = "recording" /\ sess'[i].pc # "recording")
          => inflight \subseteq inflight']_vars
  /\ [][\A i \in Sessions, k \in 1..(MaxTimed + 1), url \in BOOLEAN :
          (/\ ChunkUploadDone(i, k, "ok", TRUE, url)
           /\ sess[i].pc \in {"stopping", "inactive"}
           /\ Live(sess[i].call)) => response' = <<i, k>>]_vars

\* C15 witness: the recorder has been stopped while the uploads of its first
\* two fragments were both in flight, and they still are.
C15_Witness ==
  \E i \in Sessions :
    /\ sess[i].pc = "inactive" /\ ~isRecording
    /\ {<<i, 1>>, <<i, 2>>} \subseteq inflight

\* C16: when the playback of a reply fails, the reply text of that response
\* was applied before playback was attempted, the failure changes neither the
\* recorder, the requests issued or in flight, the visible text nor the
\* record of failed uploads, every non-empty blob is still posted, and a
\* stop that flushes a tail still issues the final upload.
C16_PlaybackContained ==
  /\ [](/\ \A i \in Sessions : ChunkUploads(uploadLog[i]) = UpTo(Emitted(i))
        /\ \A i \in Sessions :
             (sess[i].pc = "inactive" /\ sess[i].tail = 1) =>
               FinalUploads(uploadLog[i]) = 1
        /\ lastFailed = <<>>)
  /\ [][\A i \in Sessions, k \in 0..(MaxTimed + 1) :
          (<<i, k>> \in playing' \ playing /\ Live(sess[i].call)) =>
            response' = <<i, k>>]_vars
  /\ [][\A i \in Sessions, k \in 0..(MaxTimed + 1) :
          PlayDone(i, k, FALSE) =>
            /\ sess' = sess /\ uploadLog' = uploadLog /\ inflight' = inflight
            /\ response' = response /\ lastFailed' = lastFailed
            /\ isRecording' = isRecording]_vars

\* C16 witness: the playback for fragment 1 failed when it was the only one
\* emitted; the recorder went on, fragment 2 and the final upload were posted.
C16_Witness ==
  /\ lastPlayFailed = <<1, 1, 1>>
  /\ sess[1].pc = "inactive"
  /\ uploadLog[1] = <<1, 2, 0>>
  /\ lastFailed = <<>>

\* C17: with every start_listening request failing, the TALK button still
\* opens the consent modal, startRecording still goes on to getUserMedia, and
\* once the microphone is granted the recorder is recording, held in
\* mediaRecorderRef, and isRecording is true; no attempt is abandoned.
C17_StartFailureNonFatal ==
  /\ [](\A i \in Sessions : sess[i].pc # "failed")
  /\ [][\A o \in {"lost", "resplost"} : HeroStartDone(o) => showConsentModal']_vars
  /\ [][\A i \in Sessions, o \in {"lost", "resplost"} :
          StartListeningDone(i, o) => sess'[i].pc = "awaitMedia"]_vars
  /\ [][\A i \in Sessions :
          (GetUserMediaDone(i, TRUE) /\ Live(sess[i].call)) =>
            /\ sess'[i].pc = "recording"
            /\ isRecording' /\ mediaRecorderRef' = i]_vars

\* C17 witness: the backend never saw a start_listening request, the call
\* interface is up and its recorder has emitted a fragment.
C17_Witness ==
  /\ listening = [p \in Ports |-> FALSE]
  /\ isCallActive /\ isRecording /\ mediaRecorderRef = 1
  /\ sess[1].pc = "recording" /\ sess[1].timed = 1

\* C18: a startRecording attempt that fails at the microphone (or while the
\* recorder is created or started) leaves isRecording false and
\* mediaRecorderRef as it was, never emits or posts anything, and leaves the
\* polling channel and the visible text alone.
C18_MediaFailureInert ==
  /\ [](\A i \in Sessions :
          sess[i].pc = "failed" =>
            /\ uploadLog[i] = <<>> /\ Emitted(i) = 0
            /\ mediaRecorderRef # i
            /\ \A id \in inflight \cup playing : id[1] # i)
  /\ [](isCallActive => intervalActive)
  /\ [][\A i \in Sessions :
          GetUserMediaDone(i, FALSE) =>
            /\ ~isRecording'
            /\ mediaRecorderRef' = mediaRecorderRef
            /\ polls' = polls /\ intervalActive' = intervalActive
            /\ response' = response /\ isAISpeaking' = isAISpeaking]_vars

\* C18 witness: a first session recorded and stopped, the second attempt was
\* denied the microphone; the reference still holds the first recorder and a
\* poll is in flight.
C18_Witness ==
  /\ sess[1].pc = "inactive" /\ sess[2].pc = "failed"
  /\ mediaRecorderRef = 1 /\ ~isRecording
  /\ uploadLog[2] = <<>>
  /\ intervalActive /\ Len(polls) = 1

\* C19 as stated: while the call interface stays mounted, a visible response
\* text that is not empty never becomes empty.
C19_NeverRevertsToEmpty ==
  [][(isCallActive /\ isCallActive' /\ call' = call /\ response # NoReply) =>
       response' # NoReply]_vars

====
